---- MODULE Spec2Model ----
(***************************************************************************)
(* Gourmet-Map: the App component (saved places, selection, search), the   *)
(* CheckInModal form and the localStorage key they persist to.             *)
(*                                                                         *)
(* Strings are TLC strings, coordinates are integers in units of 1e-5      *)
(* degree, and a JSON text is the sequence of its tokens.  Presentation    *)
(* state that no handler reads back (viewState, hover state) is left out,  *)
(* and the user leaves the modal's note and photo empty.                   *)
(***************************************************************************)
EXTENDS Integers, Sequences, FiniteSets, TLC

VARIABLES
  phase,            \* "loading" | "running" | "crashed" (root unmounted by an uncaught error)
  storage,          \* localStorage['my_gourmet_map_places']: [present, text]
  now,              \* the last value Date.now() returned
  currentLocation,  \* App state
  searchQuery,
  searchResults,
  isSearching,
  savedPlaces,
  selectedPlace,
  isModalOpen,
  pending,          \* performSearch calls suspended at their await, in issue order
  geoPending,       \* getCurrentPosition callback not yet delivered
  rating,           \* CheckInModal state
  alertOpen,        \* handleSave is blocked in alert(), and with it the event loop
  writeFailed       \* TRUE once localStorage.setItem has thrown

vars == <<phase, storage, now, currentLocation, searchQuery, searchResults,
          isSearching, savedPlaces, selectedPlace, isModalOpen, pending, geoPending,
          rating, alertOpen, writeFailed>>

----------------------------------------------------------------------------
(* Bounds *)

MaxTime == 1
MaxCheckIns == 3
MaxPending == 2

----------------------------------------------------------------------------
(* Values *)

\* JS null (selectedPlace) and JS undefined (an optional field that is not set)
Null == [null |-> TRUE]
Undefined == "\\undefined"

\* CheckInModal passes maxStars={5} to StarRating
MaxStars == 5

\* 25.0330, 121.5654 in units of 1e-5 degree
DefaultLocation == [latitude |-> 2503300, longitude |-> 12156540]

\* positions the geolocation provider may report
GeoPositions == {[latitude |-> 2504000, longitude |-> 12155000]}

\* the jitter of the mock place: 0.005 degree
JitterHalf == 500

\* values Math.random() may return, in thousandths (0 <= r < 1)
RandomSamples == {0, 999}

\* the one value it returns in the runs that are about the store
StoreSamples == {0}

\* a jitter that is not centred on the origin: Math.random() * 0.01
JitterUncentred(r) == r

\* Math.random() * 0.01 - 0.005, in units of 1e-5 degree
Jitter(r) == r - JitterHalf

\* what the user may type into the search box
Queries == {"", "ramen"}

\* the star the user may click: starValue = index + 1 of the last of maxStars
ClickedStars == {MaxStars}

\* a subset of CUISINE_CATEGORIES' labels
CUISINE_CATEGORIES == {"hotpot"}

\* `附近的${categoryLabel}`
CategoryQuery(categoryLabel) == "nearby " \o categoryLabel

WhitespaceOnly == {"", " ", "  "}

\* String.prototype.trim, on strings that are blank or carry no outer blanks
Trim(s) == IF s \in WhitespaceOnly THEN "" ELSE s

\* places as searchPlacesWithGemini builds them from grounding chunks
GeminiPlaceA ==
  [id |-> "p1", name |-> "Ichiran", address |-> Undefined,
   location |-> [latitude |-> 2503400, longitude |-> 12156500]]

GeminiPlaceB ==
  [id |-> "p2", name |-> "Din Tai Fung", address |-> "Xinyi Rd",
   location |-> DefaultLocation]

\* what searchPlacesWithGemini may resolve to; <<>> also covers its catch branch
GeminiResults == {<<>>, <<GeminiPlaceA>>, <<GeminiPlaceA, GeminiPlaceB>>}

\* the answers it gives in the runs that are about the store
StoreResults == {<<>>, <<GeminiPlaceA>>}

IsSaved(p) == "myCheckIns" \in DOMAIN p

----------------------------------------------------------------------------
(* JSON.stringify and JSON.parse on token sequences *)

Punct(s) == [t |-> "punct", s |-> s, n |-> 0]
Str(s) == [t |-> "str", s |-> s, n |-> 0]
Num(n) == [t |-> "num", s |-> "", n |-> n]

\* one "key": value member, with the comma that precedes it unless it is first;
\* a member whose value is undefined is omitted
Member(first, key, valueTokens) ==
  (IF first THEN <<>> ELSE <<Punct(",")>>) \o <<Str(key), Punct(":")>> \o valueTokens

OptionalStr(first, key, v) ==
  IF v = Undefined THEN <<>> ELSE Member(first, key, <<Str(v)>>)

StringifyCoordinates(c) ==
  <<Punct("{")>> \o Member(TRUE, "latitude", <<Num(c.latitude)>>)
                 \o Member(FALSE, "longitude", <<Num(c.longitude)>>) \o <<Punct("}")>>

StringifyCheckIn(c) ==
  <<Punct("{")>> \o Member(TRUE, "placeId", <<Str(c.placeId)>>)
                 \o Member(FALSE, "rating", <<Num(c.rating)>>)
                 \o Member(FALSE, "text", <<Str(c.text)>>)
                 \o OptionalStr(FALSE, "image", c.image)
                 \o Member(FALSE, "id", <<Str(c.id)>>)
                 \o Member(FALSE, "timestamp", <<Num(c.timestamp)>>) \o <<Punct("}")>>

RECURSIVE StringifyCheckIns(_, _)
\* the elements of myCheckIns from index i on, comma separated
StringifyCheckIns(cs, i) ==
  IF i > Len(cs) THEN <<>>
  ELSE (IF i = 1 THEN <<>> ELSE <<Punct(",")>>)
         \o StringifyCheckIn(cs[i]) \o StringifyCheckIns(cs, i + 1)

StringifyPlace(p) ==
  <<Punct("{")>> \o Member(TRUE, "id", <<Str(p.id)>>)
                 \o Member(FALSE, "name", <<Str(p.name)>>)
                 \o OptionalStr(FALSE, "address", p.address)
                 \o Member(FALSE, "location", StringifyCoordinates(p.location))
                 \o Member(FALSE, "myCheckIns",
                           <<Punct("[")>> \o StringifyCheckIns(p.myCheckIns, 1)
                                          \o <<Punct("]")>>)
                 \o <<Punct("}")>>

RECURSIVE StringifyPlaces(_, _)
\* the elements of savedPlaces from index i on, comma separated
StringifyPlaces(ps, i) ==
  IF i > Len(ps) THEN <<>>
  ELSE (IF i = 1 THEN <<>> ELSE <<Punct(",")>>)
         \o StringifyPlace(ps[i]) \o StringifyPlaces(ps, i + 1)

\* JSON.stringify(savedPlaces)
JSONstringify(places) ==
  <<Punct("[")>> \o StringifyPlaces(places, 1) \o <<Punct("]")>>

\* parsed JSON values, tagged with their kind
JStr(s) == [k |-> "str", s |-> s]
JNum(n) == [k |-> "num", n |-> n]
JArr(items) == [k |-> "arr", items |-> items]
JObj(members) == [k |-> "obj", members |-> members]
JUndefined == [k |-> "undefined"]

\* a parse step: the value read and the index of the token after it
Parsed(v, next) == [ok |-> TRUE, val |-> v, next |-> next]
SyntaxError == [ok |-> FALSE, val |-> JUndefined, next |-> 0]

IsPunct(toks, i, s) == i <= Len(toks) /\ toks[i] = Punct(s)

RECURSIVE ParseValue(_, _), ParseElements(_, _, _), ParseMembers(_, _, _)
\* the JSON value that starts at token i
ParseValue(toks, i) ==
  IF i > Len(toks) THEN SyntaxError
  ELSE IF toks[i].t = "str" THEN Parsed(JStr(toks[i].s), i + 1)
  ELSE IF toks[i].t = "num" THEN Parsed(JNum(toks[i].n), i + 1)
  ELSE IF toks[i] = Punct("[")
    THEN IF IsPunct(toks, i + 1, "]") THEN Parsed(JArr(<<>>), i + 2)
         ELSE ParseElements(toks, i + 1, <<>>)
  ELSE IF toks[i] = Punct("{")
    THEN IF IsPunct(toks, i + 1, "}") THEN Parsed(JObj(<<>>), i + 2)
         ELSE ParseMembers(toks, i + 1, <<>>)
  ELSE SyntaxError

\* the elements of an array whose next element starts at token i
ParseElements(toks, i, acc) ==
  LET e == ParseValue(toks, i) IN
  IF ~e.ok THEN SyntaxError
  ELSE IF IsPunct(toks, e.next, ",") THEN ParseElements(toks, e.next + 1, Append(acc, e.val))
  ELSE IF IsPunct(toks, e.next, "]") THEN Parsed(JArr(Append(acc, e.val)), e.next + 1)
  ELSE SyntaxError

\* the members of an object whose next key is token i
ParseMembers(toks, i, acc) ==
  IF ~(i <= Len(toks) /\ toks[i].t = "str" /\ IsPunct(toks, i + 1, ":")) THEN SyntaxError
  ELSE LET e == ParseValue(toks, i + 2) IN
       IF ~e.ok THEN SyntaxError
       ELSE LET m == Append(acc, [key |-> toks[i].s, val |-> e.val]) IN
            IF IsPunct(toks, e.next, ",") THEN ParseMembers(toks, e.next + 1, m)
            ELSE IF IsPunct(toks, e.next, "}") THEN Parsed(JObj(m), e.next + 1)
            ELSE SyntaxError

\* JSON.parse(text): the whole text must be one value
JSONparse(toks) ==
  LET r == ParseValue(toks, 1) IN
  IF r.ok /\ r.next = Len(toks) + 1 THEN r ELSE SyntaxError

\* obj[key] of a parsed object: the last member of that key, else undefined
Field(obj, key) ==
  LET hits == {i \in 1..Len(obj.members) : obj.members[i].key = key} IN
  IF obj.k # "obj" \/ hits = {} THEN JUndefined
  ELSE obj.members[CHOOSE i \in hits : \A j \in hits : j <= i].val

\* the parsed values as the objects the App reads
StrOf(v) == IF v.k = "str" THEN v.s ELSE Undefined
NumOf(v) == IF v.k = "num" THEN v.n ELSE 0

CoordinatesOf(v) ==
  [latitude |-> NumOf(Field(v, "latitude")), longitude |-> NumOf(Field(v, "longitude"))]

CheckInOf(v) ==
  [placeId |-> StrOf(Field(v, "placeId")), rating |-> NumOf(Field(v, "rating")),
   text |-> StrOf(Field(v, "text")), image |-> StrOf(Field(v, "image")),
   id |-> StrOf(Field(v, "id")), timestamp |-> NumOf(Field(v, "timestamp"))]

SavedPlaceOf(v) ==
  LET cs == Field(v, "myCheckIns").items IN
  [id |-> StrOf(Field(v, "id")), name |-> StrOf(Field(v, "name")),
   address |-> StrOf(Field(v, "address")),
   location |-> CoordinatesOf(Field(v, "location")),
   myCheckIns |-> [i \in 1..Len(cs) |-> CheckInOf(cs[i])]]

SavedPlacesOf(v) == [i \in 1..Len(v.items) |-> SavedPlaceOf(v.items[i])]

\* whether the App's first render gets through a hydrated value: it reads
\* savedPlaces.length and .map, and each place's myCheckIns.length and
\* location.latitude
Renderable(v) ==
  /\ v.k = "arr"
  /\ \A i \in 1..Len(v.items) :
       /\ v.items[i].k = "obj"
       /\ Field(v.items[i], "myCheckIns").k = "arr"
       /\ Field(v.items[i], "location").k = "obj"

----------------------------------------------------------------------------
(* Pure parts of the handlers *)

\* prev.findIndex(p => p.id === id): the first index, 0 when there is none (JS -1)
FindIndex(places, id) ==
  LET hits == {i \in 1..Len(places) : places[i].id = id} IN
  IF hits = {} THEN 0 ELSE CHOOSE i \in hits : \A j \in hits : i <= j

\* a handleSelectPlace that forgets the lookup
SelectTargetRaw(places, place) == place

\* handleSelectPlace: savedPlaces.find(p => p.id === place.id) || place
SelectTarget(places, place) ==
  LET i == FindIndex(places, place.id) IN
  IF i > 0 THEN places[i] ELSE place

\* a handleSave without its rating check
SaveAlwaysAccepted(r) == TRUE

\* CheckInModal.handleSave: the rating === 0 check
SaveAccepted(r) == r # 0

\* a handleSave that reads the wrong property of its place
ModalDataByName(place, r) ==
  [placeId |-> place.name, rating |-> r, text |-> "", image |-> Undefined]

\* CheckInModal.handleSave: the object passed to onSave; the note and the
\* photo are left as the modal initialises them ('' and null)
ModalData(place, r) ==
  [placeId |-> place.id, rating |-> r, text |-> "", image |-> Undefined]

\* handleAddCheckIn: {...data, id: crypto.randomUUID(), timestamp: Date.now()}
NewCheckIn(data, uuid, time) ==
  [placeId |-> data.placeId, rating |-> data.rating, text |-> data.text,
   image |-> data.image, id |-> uuid, timestamp |-> time]

RECURSIVE CheckInCount(_, _)
\* the number of check-ins of places[i], places[i+1], ...
CheckInCount(places, i) ==
  IF i > Len(places) THEN 0
  ELSE Len(places[i].myCheckIns) + CheckInCount(places, i + 1)

\* crypto.randomUUID(): an id that no check-in of the store carries; ids are
\* numbered in the order the store received them
UUID(places) == "uuid-" \o ToString(CheckInCount(places, 1) + 1)

\* a saved place built field by field, the optional address forgotten
NewSavedPlaceWithoutAddress(selected, newCheckIn) ==
  [myCheckIns |-> <<newCheckIn>>] @@ [selected EXCEPT !.address = Undefined]

\* {...selectedPlace, myCheckIns: [newCheckIn]}
NewSavedPlace(selected, newCheckIn) ==
  [myCheckIns |-> <<newCheckIn>>] @@ selected

\* an updater without the lookup: every check-in makes a new entry
AddCheckInAlwaysAppends(prev, selected, newCheckIn) ==
  LET newSavedPlace ==
        [myCheckIns |-> <<newCheckIn>>] @@
          [id |-> selected.id, name |-> selected.name, address |-> selected.address,
           location |-> selected.location]
  IN [places |-> Append(prev, newSavedPlace), selected |-> newSavedPlace]

\* an updater that puts the new check-in first
AddCheckInPrepends(prev, selected, newCheckIn) ==
  LET existingIndex == FindIndex(prev, selected.id) IN
  IF existingIndex > 0
    THEN LET updatedPlaces ==
               [prev EXCEPT ![existingIndex].myCheckIns = <<newCheckIn>> \o @]
         IN [places |-> updatedPlaces, selected |-> updatedPlaces[existingIndex]]
    ELSE LET newSavedPlace == NewSavedPlace(selected, newCheckIn)
         IN [places |-> Append(prev, newSavedPlace), selected |-> newSavedPlace]

\* an updater without its setSelectedPlace calls
AddCheckInKeepsSelection(prev, selected, newCheckIn) ==
  LET existingIndex == FindIndex(prev, selected.id) IN
  IF existingIndex > 0
    THEN [places |-> [prev EXCEPT ![existingIndex].myCheckIns = Append(@, newCheckIn)],
          selected |-> selected]
    ELSE [places |-> Append(prev, NewSavedPlace(selected, newCheckIn)),
          selected |-> selected]

\* an updater that keeps only the new check-in of a saved place
AddCheckInReplacesHistory(prev, selected, newCheckIn) ==
  LET existingIndex == FindIndex(prev, selected.id) IN
  IF existingIndex > 0
    THEN LET updatedPlaces ==
               [prev EXCEPT ![existingIndex].myCheckIns = <<newCheckIn>>]
         IN [places |-> updatedPlaces, selected |-> updatedPlaces[existingIndex]]
    ELSE LET newSavedPlace == NewSavedPlace(selected, newCheckIn)
         IN [places |-> Append(prev, newSavedPlace), selected |-> newSavedPlace]

\* the updater handleAddCheckIn hands to setSavedPlaces, with the
\* setSelectedPlace call it makes: the next savedPlaces and selectedPlace
AddCheckInUpdater(prev, selected, newCheckIn) ==
  LET existingIndex == FindIndex(prev, selected.id) IN
  IF existingIndex > 0
    THEN LET updatedPlaces ==
               [prev EXCEPT ![existingIndex].myCheckIns = Append(@, newCheckIn)]
         IN [places |-> updatedPlaces, selected |-> updatedPlaces[existingIndex]]
    ELSE LET newSavedPlace == NewSavedPlace(selected, newCheckIn)
         IN [places |-> Append(prev, newSavedPlace), selected |-> newSavedPlace]

\* performSearch: the mock place built when the provider returned nothing
MockPlace(query, origin, time, r1, r2) ==
  [id |-> "mock-" \o ToString(time), name |-> query,
   address |-> "nearby (simulated result)",
   location |-> [latitude |-> origin.latitude + Jitter(r1),
                 longitude |-> origin.longitude + Jitter(r2)]]

\* performSearch: what setSearchResults receives
SearchOutcome(geminiResults, query, origin, time, r1, r2) ==
  IF Len(geminiResults) = 0 THEN <<MockPlace(query, origin, time, r1, r2)>>
  ELSE geminiResults

\* an initializer that never reads what the key holds
HydrateIgnoresStore(store) == Parsed(JArr(<<>>), 0)

\* the useState initializer of savedPlaces: saved ? JSON.parse(saved) : []
\* (getItem gives null for an absent key, and '' is falsy)
Hydrate(store) ==
  IF ~store.present \/ store.text = <<>> THEN Parsed(JArr(<<>>), 0)
  ELSE JSONparse(store.text)

\* a persist effect that writes the places without their check-ins
PersistedTextWithoutCheckIns(places) ==
  JSONstringify([i \in 1..Len(places) |-> [places[i] EXCEPT !.myCheckIns = <<>>]])

\* the persist effect: what setItem is given
PersistedText(places) == JSONstringify(places)

Range(seq) == {seq[i] : i \in 1..Len(seq)}

RemoveAt(seq, i) == SubSeq(seq, 1, i - 1) \o SubSeq(seq, i + 1, Len(seq))

----------------------------------------------------------------------------
(* Initial state: the page before the App is mounted *)

Absent == [present |-> FALSE, text |-> <<>>]
Stored(toks) == [present |-> TRUE, text |-> toks]

\* what the key may hold when the page is first opened: nothing, '', '[]',
\* a truncated text, an object, an array of an empty object
InitialStorage ==
  {Absent, Stored(<<>>), Stored(<<Punct("["), Punct("]")>>),
   Stored(<<Punct("[")>>), Stored(<<Punct("{"), Punct("}")>>),
   Stored(<<Punct("["), Punct("{"), Punct("}"), Punct("]")>>)}

\* the state the App's and the modal's useState calls give, savedPlaces apart
uiVars == <<currentLocation, searchQuery, searchResults, isSearching, selectedPlace,
            isModalOpen, pending, rating, alertOpen>>

FreshState ==
  /\ currentLocation = DefaultLocation
  /\ searchQuery = ""
  /\ searchResults = <<>>
  /\ isSearching = FALSE
  /\ selectedPlace = Null
  /\ isModalOpen = FALSE
  /\ pending = <<>>
  /\ rating = 0
  /\ alertOpen = FALSE

\* the same values, given to the next state
ResetState ==
  /\ currentLocation' = DefaultLocation
  /\ searchQuery' = ""
  /\ searchResults' = <<>>
  /\ isSearching' = FALSE
  /\ selectedPlace' = Null
  /\ isModalOpen' = FALSE
  /\ pending' = <<>>
  /\ rating' = 0
  /\ alertOpen' = FALSE

Init ==
  /\ phase = "loading"
  /\ storage \in InitialStorage
  /\ now = 0
  /\ savedPlaces = <<>>
  /\ geoPending = FALSE
  /\ writeFailed = FALSE
  /\ FreshState

\* an uncaught error in a render or an effect: React unmounts the root, and
\* the component state is gone
Crash ==
  /\ phase' = "crashed"
  /\ savedPlaces' = <<>>
  /\ geoPending' = FALSE
  /\ ResetState

\* the persist effect after a render that changed savedPlaces to places,
\* together with the rest of the handler's state change; setItem may throw
PersistOr(places, rest) ==
  \/ /\ storage' = Stored(PersistedText(places))
     /\ savedPlaces' = places
     /\ rest
     /\ phase' = "running"
     /\ UNCHANGED writeFailed
  \/ /\ writeFailed' = TRUE
     /\ Crash
     /\ UNCHANGED storage

----------------------------------------------------------------------------
(* Actions *)

\* the App is mounted and the event loop is free to run a handler
Running == phase = "running" /\ ~alertOpen

\* first render of App and its two mount effects
Mount(hasGeolocation) ==
  /\ phase = "loading"
  /\ UNCHANGED now
  /\ LET h == Hydrate(storage) IN
     IF h.ok /\ Renderable(h.val)
       THEN PersistOr(SavedPlacesOf(h.val), geoPending' = hasGeolocation /\ UNCHANGED uiVars)
       ELSE Crash /\ UNCHANGED <<storage, writeFailed>>

\* the user reloads the page
Reload ==
  /\ phase \in {"running", "crashed"}
  /\ phase' = "loading"
  /\ savedPlaces' = <<>>
  /\ geoPending' = FALSE
  /\ writeFailed' = FALSE
  /\ ResetState
  /\ UNCHANGED <<storage, now>>

\* the values Date.now() may return next: the clock never runs backwards
Clock == now..MaxTime

\* getCurrentPosition's success callback
GeoSuccess ==
  /\ Running /\ geoPending
  /\ \E position \in GeoPositions : currentLocation' = position
  /\ geoPending' = FALSE
  /\ UNCHANGED <<phase, storage, now, searchQuery, searchResults, isSearching,
                 savedPlaces, selectedPlace, isModalOpen, pending, rating, alertOpen,
                 writeFailed>>

\* getCurrentPosition's error callback
GeoError ==
  /\ Running /\ geoPending
  /\ geoPending' = FALSE
  /\ UNCHANGED <<phase, storage, now, savedPlaces, writeFailed, uiVars>>

\* the search box's onChange
SetSearchQuery ==
  /\ Running
  /\ \E q \in Queries : searchQuery' = q
  /\ UNCHANGED <<phase, storage, now, currentLocation, searchResults,
                 isSearching, savedPlaces, selectedPlace, isModalOpen, pending,
                 geoPending, rating, alertOpen, writeFailed>>

\* the outstanding calls once one more call is made: none of them is the
\* latest any more
Superseded(calls) == [k \in 1..Len(calls) |-> [calls[k] EXCEPT !.latest = FALSE]]

\* performSearch up to its await: the call keeps the query and the
\* currentLocation of the render it was made in; latest records that no call
\* was made after it
PerformSearch(query) ==
  IF Trim(query) = ""
    THEN UNCHANGED <<isSearching, pending>>
    ELSE /\ Len(pending) < MaxPending
         /\ isSearching' = TRUE
         /\ pending' = Append(Superseded(pending),
                              [query |-> query, origin |-> currentLocation,
                               latest |-> TRUE])

HandleSearchSubmit ==
  /\ Running
  /\ PerformSearch(searchQuery)
  /\ UNCHANGED <<phase, storage, now, currentLocation, searchQuery,
                 searchResults, savedPlaces, selectedPlace, isModalOpen, geoPending,
                 rating, alertOpen, writeFailed>>

HandleCategoryClick ==
  /\ Running
  /\ \E categoryLabel \in CUISINE_CATEGORIES :
       /\ searchQuery' = CategoryQuery(categoryLabel)
       /\ PerformSearch(CategoryQuery(categoryLabel))
  /\ UNCHANGED <<phase, storage, now, currentLocation, searchResults,
                 savedPlaces, selectedPlace, isModalOpen, geoPending, rating,
                 alertOpen, writeFailed>>

\* performSearch from its await on, for the i-th outstanding call and the
\* sequence the provider returned to it
ResumeSearch(i, geminiResults, samples) ==
  /\ pending' = RemoveAt(pending, i)
  /\ IF Len(geminiResults) = 0
       THEN \E time \in Clock, r1 \in samples, r2 \in samples :
              /\ now' = time
              /\ searchResults' = SearchOutcome(geminiResults, pending[i].query,
                                                pending[i].origin, time, r1, r2)
       ELSE /\ UNCHANGED now
            /\ searchResults' = SearchOutcome(geminiResults, pending[i].query,
                                              pending[i].origin, now, 0, 0)
  /\ isSearching' = FALSE
  /\ UNCHANGED <<phase, storage, currentLocation, searchQuery, savedPlaces,
                 selectedPlace, isModalOpen, geoPending, rating, alertOpen,
                 writeFailed>>

\* one of the outstanding calls resumes, in any order
ResolveSearch(results, samples) ==
  /\ Running
  /\ \E i \in 1..Len(pending), geminiResults \in results :
       ResumeSearch(i, geminiResults, samples)

\* a click on a search result, a saved place or one of their markers
HandleSelectPlace ==
  /\ Running
  /\ \E place \in Range(searchResults) \cup Range(savedPlaces) :
       selectedPlace' = SelectTarget(savedPlaces, place)
  /\ UNCHANGED <<phase, storage, now, currentLocation, searchQuery,
                 searchResults, isSearching, savedPlaces, isModalOpen, pending,
                 geoPending, rating, alertOpen, writeFailed>>

\* the detail card's close button; the CheckInModal is unmounted with it
ClearSelection ==
  /\ Running /\ selectedPlace # Null
  /\ selectedPlace' = Null
  /\ rating' = 0
  /\ UNCHANGED <<phase, storage, now, currentLocation, searchQuery,
                 searchResults, isSearching, savedPlaces, isModalOpen, pending,
                 geoPending, alertOpen, writeFailed>>

\* the detail card's check-in button
OpenModal ==
  /\ Running /\ selectedPlace # Null
  /\ isModalOpen' = TRUE
  /\ UNCHANGED <<phase, storage, now, currentLocation, searchQuery,
                 searchResults, isSearching, savedPlaces, selectedPlace, pending,
                 geoPending, rating, alertOpen, writeFailed>>

\* the CheckInModal is mounted and shows its form
ModalVisible == Running /\ selectedPlace # Null /\ isModalOpen

\* the modal's close and cancel buttons
CloseModal ==
  /\ ModalVisible
  /\ isModalOpen' = FALSE
  /\ UNCHANGED <<phase, storage, now, currentLocation, searchQuery,
                 searchResults, isSearching, savedPlaces, selectedPlace, pending,
                 geoPending, rating, alertOpen, writeFailed>>

\* StarRating's onClick: onRate(starValue), starValue = index + 1
OnRate ==
  /\ ModalVisible
  /\ \E starValue \in ClickedStars : rating' = starValue
  /\ UNCHANGED <<phase, storage, now, currentLocation, searchQuery,
                 searchResults, isSearching, savedPlaces, selectedPlace, isModalOpen,
                 pending, geoPending, alertOpen, writeFailed>>

\* CheckInModal.handleSave, handleAddCheckIn through onSave, and the persist
\* effect of the render that follows
HandleSave ==
  /\ ModalVisible
  /\ IF ~SaveAccepted(rating)
       THEN /\ alertOpen' = TRUE
            /\ UNCHANGED <<phase, storage, now, currentLocation, searchQuery,
                           searchResults, isSearching, savedPlaces, selectedPlace,
                           isModalOpen, pending, geoPending, rating, writeFailed>>
       ELSE /\ CheckInCount(savedPlaces, 1) < MaxCheckIns
            /\ \E time \in Clock :
               LET newCheckIn == NewCheckIn(ModalData(selectedPlace, rating),
                                            UUID(savedPlaces), time)
                   u == AddCheckInUpdater(savedPlaces, selectedPlace, newCheckIn)
               IN /\ now' = time
                  /\ PersistOr(u.places,
                               /\ selectedPlace' = u.selected
                               /\ rating' = 0
                               /\ isModalOpen' = FALSE
                               /\ UNCHANGED <<currentLocation, searchQuery,
                                              searchResults, isSearching, pending,
                                              geoPending, alertOpen>>)

\* the user dismisses the alert and handleSave returns
DismissAlert ==
  /\ phase = "running" /\ alertOpen
  /\ alertOpen' = FALSE
  /\ UNCHANGED <<phase, storage, now, currentLocation, searchQuery,
                 searchResults, isSearching, savedPlaces, selectedPlace, isModalOpen,
                 pending, geoPending, rating, writeFailed>>

\* The store's runs: a browser without navigator.geolocation, a user who
\* searches by category and never retypes the query (both only feed the name
\* and the location of a mock place) and waits for the answer before the next
\* search, a provider that knows one place, one value of Math.random().
Next ==
  \/ Mount(FALSE)
  \/ Reload
  \/ (pending = <<>> /\ HandleSearchSubmit)
  \/ (pending = <<>> /\ HandleCategoryClick)
  \/ ResolveSearch(StoreResults, StoreSamples)
  \/ HandleSelectPlace
  \/ ClearSelection
  \/ OpenModal
  \/ CloseModal
  \/ OnRate
  \/ HandleSave
  \/ DismissAlert

Spec == Init /\ [][Next]_vars

\* Every run: geolocation, typed queries, every answer of the provider, both
\* ends of the jitter.
NextFull ==
  \/ Next
  \/ Mount(TRUE)
  \/ SetSearchQuery
  \/ GeoSuccess
  \/ GeoError
  \/ ResolveSearch(GeminiResults, RandomSamples)

SpecFull == Init /\ [][NextFull]_vars

\* The searches' runs: a first visit (nothing stored), typed and category
\* queries, searches made while others are outstanding, geolocation, every
\* answer of the provider, both ends of the jitter.
InitSearch == Init /\ storage = Absent

NextSearch ==
  \/ Mount(TRUE)
  \/ Reload
  \/ SetSearchQuery
  \/ GeoSuccess
  \/ GeoError
  \/ HandleSearchSubmit
  \/ HandleCategoryClick
  \/ ResolveSearch(GeminiResults, RandomSamples)

SpecSearch == InitSearch /\ [][NextSearch]_vars

----------------------------------------------------------------------------
(* What the properties speak of *)

Ids(places) == {places[i].id : i \in 1..Len(places)}

\* the position of the entry of that id (for an id of the collection)
IndexOf(places, id) == CHOOSE i \in 1..Len(places) : places[i].id = id

Last(seq) == seq[Len(seq)]

SamePlaceFields(p, q) ==
  /\ p.id = q.id
  /\ p.name = q.name
  /\ p.address = q.address
  /\ p.location = q.location

\* a step of handleSave that got past the rating check, with the render and
\* the persist effect that follow it completed
AddCheckInDone == HandleSave /\ ~alertOpen' /\ phase' = "running"

\* the check-in that step stores: what the form held, under a new id
IsNewCheckIn(c) ==
  /\ c.placeId = selectedPlace.id
  /\ c.rating = rating
  /\ c.timestamp = now'
  /\ \A i \in 1..Len(savedPlaces) : \A k \in 1..Len(savedPlaces[i].myCheckIns) :
       savedPlaces[i].myCheckIns[k].id # c.id

----------------------------------------------------------------------------
(* Properties *)

\* C1: the saved-places collection never holds two entries of the same place id.
C1_OneEntryPerId ==
  \A i, j \in 1..Len(savedPlaces) : savedPlaces[i].id = savedPlaces[j].id => i = j

\* two places are saved, and one of them was checked in twice
C1_Witness ==
  /\ phase = "running"
  /\ Len(savedPlaces) = 2
  /\ CheckInCount(savedPlaces, 1) = 3

\* C2: a check-in against a place that is already saved, with n check-ins,
\* leaves the collection's length and every other entry as they were, and
\* gives that entry n+1 check-ins: the n it had, in order, then the new one.
C2_MergeIntoSaved ==
  [][(AddCheckInDone /\ selectedPlace.id \in Ids(savedPlaces)) =>
       LET i == IndexOf(savedPlaces, selectedPlace.id)
           n == Len(savedPlaces[i].myCheckIns)
       IN /\ Len(savedPlaces') = Len(savedPlaces)
          /\ \A j \in 1..Len(savedPlaces) : j # i => savedPlaces'[j] = savedPlaces[j]
          /\ SamePlaceFields(savedPlaces'[i], savedPlaces[i])
          /\ Len(savedPlaces'[i].myCheckIns) = n + 1
          /\ SubSeq(savedPlaces'[i].myCheckIns, 1, n) = savedPlaces[i].myCheckIns
          /\ IsNewCheckIn(Last(savedPlaces'[i].myCheckIns))]_vars

\* the first of two saved places is selected and has been checked in again
C2_Witness ==
  /\ phase = "running"
  /\ Len(savedPlaces) = 2
  /\ Len(savedPlaces[1].myCheckIns) = 2
  /\ selectedPlace = savedPlaces[1]

\* C3: a check-in against a selected place whose id is not saved appends one
\* entry at the end; it carries the place's fields and the one new check-in,
\* and it is the only entry of that id.
C3_FirstCheckInAppends ==
  [][(AddCheckInDone /\ selectedPlace.id \notin Ids(savedPlaces)) =>
       /\ Len(savedPlaces') = Len(savedPlaces) + 1
       /\ SubSeq(savedPlaces', 1, Len(savedPlaces)) = savedPlaces
       /\ SamePlaceFields(Last(savedPlaces'), selectedPlace)
       /\ Len(Last(savedPlaces').myCheckIns) = 1
       /\ IsNewCheckIn(Last(savedPlaces').myCheckIns[1])
       /\ \A i \in 1..Len(savedPlaces') :
            savedPlaces'[i].id = selectedPlace.id => i = Len(savedPlaces')]_vars

\* a mock place, with its address, was saved second and checked in once
C3_Witness ==
  /\ phase = "running"
  /\ Len(savedPlaces) = 2
  /\ savedPlaces[2].address # Undefined
  /\ Len(savedPlaces[2].myCheckIns) = 1

\* C4: every stored check-in carries the id of the saved place that holds it.
C4_CheckInBelongsToPlace ==
  \A i \in 1..Len(savedPlaces) : \A k \in 1..Len(savedPlaces[i].myCheckIns) :
    savedPlaces[i].myCheckIns[k].placeId = savedPlaces[i].id

\* check-ins are stored for two places, and the modal was left open while the
\* selection was cleared
C4_Witness ==
  /\ phase = "running"
  /\ Len(savedPlaces) = 2
  /\ isModalOpen
  /\ selectedPlace = Null

\* C5: after a check-in the selection is the saved entry of the place that
\* was selected, with its new check-in, and not the object selected before.
C5_SelectionRefreshed ==
  [][AddCheckInDone =>
       /\ selectedPlace'.id = selectedPlace.id
       /\ selectedPlace' = savedPlaces'[IndexOf(savedPlaces', selectedPlace.id)]
       /\ selectedPlace' # selectedPlace]_vars

\* the selection shows two check-ins
C5_Witness ==
  /\ phase = "running"
  /\ selectedPlace # Null
  /\ IsSaved(selectedPlace)
  /\ Len(selectedPlace.myCheckIns) = 2

\* C6: selecting a place selects the saved entry of its id when there is one
\* and the place itself otherwise, and leaves the saved collection and the
\* storage as they were.
C6_SelectCanonical ==
  [][HandleSelectPlace =>
       /\ \E place \in Range(searchResults) \cup Range(savedPlaces) :
            selectedPlace' = IF place.id \in Ids(savedPlaces)
                               THEN savedPlaces[IndexOf(savedPlaces, place.id)]
                               ELSE place
       /\ UNCHANGED <<savedPlaces, storage>>]_vars

\* a search result without check-ins is listed, and the selection of its id
\* is the saved entry
C6_Witness ==
  /\ phase = "running"
  /\ selectedPlace # Null
  /\ IsSaved(selectedPlace)
  /\ \E r \in Range(searchResults) : r.id = selectedPlace.id /\ ~IsSaved(r)

\* C7: the form's rating is never above 5, and a submission whose rating is
\* not in 1..5 changes neither the saved collection, nor the storage, nor the
\* selection.
C7_UnratedRejected ==
  /\ [](rating \in 0..MaxStars)
  /\ [][(HandleSave /\ rating \notin 1..MaxStars) =>
          UNCHANGED <<savedPlaces, storage, selectedPlace>>]_vars

\* a submission without a rating has raised its alert, with a place saved
C7_Witness ==
  /\ alertOpen
  /\ rating = 0
  /\ savedPlaces # <<>>

\* C8: while the App runs, the storage key holds the serialization of the
\* whole saved collection.
C8_StorageMirrorsStore ==
  phase = "running" => storage = Stored(JSONstringify(savedPlaces))

\* two places are saved and written
C8_Witness ==
  /\ phase = "running"
  /\ Len(savedPlaces) = 2
  /\ storage.present
  /\ Len(storage.text) > 2
  /\ ~isModalOpen

\* C9: a startup whose write does not fail reaches the running state, with an
\* empty collection when the key holds no well-formed store.
C9_StartupNeverFails ==
  [][(phase = "loading" /\ phase' # "loading" /\ ~writeFailed') =>
       /\ phase' = "running"
       /\ (~Hydrate(storage).ok \/ ~Renderable(Hydrate(storage).val))
            => savedPlaces' = <<>>]_vars

\* C10: when the write of a check-in raises, the App keeps running, the saved
\* collection holds the new check-in and the selection is the updated entry.
C10_WriteFailureNonFatal ==
  [][(HandleSave /\ writeFailed') =>
       /\ phase' = "running"
       /\ selectedPlace' # Null
       /\ selectedPlace'.id = selectedPlace.id
       /\ selectedPlace'.id \in Ids(savedPlaces')
       /\ selectedPlace' = savedPlaces'[IndexOf(savedPlaces', selectedPlace.id)]
       /\ IsNewCheckIn(Last(selectedPlace'.myCheckIns))]_vars

\* the ids of a collection, in the collection's order
IdsInOrder(places) == [i \in 1..Len(places) |-> places[i].id]

\* each entry's check-ins, in the collection's order
CheckInSequences(places) == [i \in 1..Len(places) |-> places[i].myCheckIns]

\* C11: when the running App is restarted, what the next start hydrates from
\* the storage key is the saved collection as it was before the restart: the
\* same ids in the same order, and for each entry the same check-ins in the
\* same order.
C11_RestartRoundTrip ==
  [][(Reload /\ phase = "running") =>
       LET h == Hydrate(storage) IN
         /\ storage' = storage
         /\ h.ok
         /\ Renderable(h.val)
         /\ IdsInOrder(SavedPlacesOf(h.val)) = IdsInOrder(savedPlaces)
         /\ CheckInSequences(SavedPlacesOf(h.val)) = CheckInSequences(savedPlaces)]_vars

\* the page was reloaded with two places stored, one of them checked in twice
C11_Witness ==
  /\ phase = "loading"
  /\ Hydrate(storage).ok
  /\ Renderable(Hydrate(storage).val)
  /\ LET places == SavedPlacesOf(Hydrate(storage).val) IN
       /\ Len(places) = 2
       /\ \E i \in 1..2 : Len(places[i].myCheckIns) = 2

\* the distance between two coordinates of the same axis
Distance(a, b) == IF a >= b THEN a - b ELSE b - a

\* C12: when an outstanding search resumes with an empty answer of the
\* provider, the result list becomes one place named after the call's query,
\* with the simulated-result address, at most 0.005 degrees from the call's
\* origin on each axis; with a non-empty answer it becomes that answer.
C12_FallbackSubstitution ==
  [][\A i \in 1..Len(pending), geminiResults \in GeminiResults :
       (Running /\ ResumeSearch(i, geminiResults, RandomSamples)) =>
          IF geminiResults = <<>>
            THEN /\ Len(searchResults') = 1
                 /\ searchResults'[1].name = pending[i].query
                 /\ Trim(pending[i].query) # ""
                 /\ searchResults'[1].address = "nearby (simulated result)"
                 /\ Distance(searchResults'[1].location.latitude,
                             pending[i].origin.latitude) <= JitterHalf
                 /\ Distance(searchResults'[1].location.longitude,
                             pending[i].origin.longitude) <= JitterHalf
            ELSE searchResults' = geminiResults]_vars

\* a simulated result is shown whose origin is no longer the current location,
\* at the far end of the jitter on one axis
C12_Witness ==
  /\ phase = "running"
  /\ Len(searchResults) = 1
  /\ searchResults[1].address = "nearby (simulated result)"
  /\ searchResults[1].name = "ramen"
  /\ currentLocation # DefaultLocation
  /\ searchResults[1].location.latitude = DefaultLocation.latitude + JitterHalf - 1
  /\ pending = <<>>

\* C13: a response is not applied once a later search was made: when a call
\* that is not the latest one resumes, the result list stays as it is, and
\* when the last outstanding call has resumed the list is never the answer to
\* an earlier call.
C13_NoStaleResponse ==
  [][\A i \in 1..Len(pending) :
       (Running /\ ~pending[i].latest /\ pending' = RemoveAt(pending, i)
          /\ ResolveSearch(GeminiResults, RandomSamples))
       => searchResults' = searchResults]_vars

\* C14: while the App runs, the searching indicator is on exactly when a
\* search call is outstanding.
C14_SearchingWhileOutstanding ==
  phase = "running" => (isSearching <=> pending # <<>>)

\* the collection the storage key holds for the next start
Persisted ==
  LET h == Hydrate(storage) IN
  IF h.ok /\ Renderable(h.val) THEN SavedPlacesOf(h.val) ELSE <<>>

\* the saved collection as it stands in a state: the App's while it runs, and
\* otherwise what the storage key holds
Store == IF phase = "running" THEN savedPlaces ELSE Persisted

IsPrefix(s, t) == Len(s) <= Len(t) /\ SubSeq(t, 1, Len(s)) = s

\* later holds every place of earlier at the same position, each with its
\* earlier check-ins first and unchanged
GrownFrom(earlier, later) ==
  /\ IsPrefix(IdsInOrder(earlier), IdsInOrder(later))
  /\ \A i \in 1..Len(earlier) : IsPrefix(earlier[i].myCheckIns, later[i].myCheckIns)

\* C15: every step, restarts and failures included, leaves each saved place
\* at its position and each of its check-ins at its position and as it was: the
\* collection only grows at the end, and so does each check-in sequence. (A
\* step that stops the App leaves the storage key as it is, so the collection
\* after it is the one the key held before it.)
C15_AppendOnly ==
  [][IF phase' = "running"
       THEN GrownFrom(Store, savedPlaces')
       ELSE storage' = storage /\ GrownFrom(Store, Persisted)]_vars

\* a second check-in went to the second place, behind a first place
C15_Witness ==
  /\ phase = "running"
  /\ Len(savedPlaces) = 2
  /\ Len(savedPlaces[1].myCheckIns) = 1
  /\ Len(savedPlaces[2].myCheckIns) = 2
  /\ savedPlaces[2].myCheckIns[1].timestamp < savedPlaces[2].myCheckIns[2].timestamp

====
